---------------------------- MODULE Spec2Model ----------------------------
(***************************************************************************)
(* Model of the two-phase tableau simplex solver of src/src/lib.rs.        *)
(*                                                                         *)
(* f64 values are modelled as exact rationals <<numerator, denominator>>   *)
(* in lowest terms with a positive denominator; a zero denominator stands  *)
(* for the non-finite values (<<1,0>> = +inf, <<-1,0>> = -inf,             *)
(* <<0,0>> = NaN).  Rounding is not modelled.  A HashSet is a set, and     *)
(* every iteration over one is a nondeterministic choice of its order.     *)
(* A panic ends the run with result = "panic".                             *)
(***************************************************************************)
EXTENDS Integers, Sequences, FiniteSets, TLC

VARIABLES input, std, slack_aux, slack, k, leaving, entering, pc, result,
          solution, optimal

vars == <<input, std, slack_aux, slack, k, leaving, entering, pc, result,
          solution, optimal>>

-----------------------------------------------------------------------------
(* Bounds of the explored inputs *)

\* largest vector length / row count of the inputs used to exercise the constructor
MaxDim == 2

\* largest constraint coefficient a[i][j] of the enumerated models (the smallest is -1)
MaxCoef == 1

-----------------------------------------------------------------------------
(* f64 arithmetic, as exact rationals *)

\* const EPS: f64 = 1e-8, as the rational 1 / EpsDen
EpsDen == 100000000

Abs(x) == IF x < 0 THEN -x ELSE x

Sgn(x) == IF x < 0 THEN -1 ELSE IF x = 0 THEN 0 ELSE 1

\* The arithmetic is written as functions, whose arguments are values.
GCD[x \in Nat, y \in Nat] == IF y = 0 THEN x ELSE GCD[y, x % y]

Norm[n \in Int, d \in Int] ==
    IF d = 0 THEN <<Sgn(n), 0>>
    ELSE <<(Sgn(d) * n) \div GCD[Abs(n), Abs(d)], Abs(d) \div GCD[Abs(n), Abs(d)]>>

F64 == Int \X Int

R(i) == <<i, 1>>
Zero == <<0, 1>>
One == <<1, 1>>
INFINITY == <<1, 0>>
NaN == <<0, 0>>

IsFinite(x) == x[2] # 0

RNeg[x \in F64] == <<-x[1], x[2]>>

RAbs[x \in F64] == <<Abs(x[1]), x[2]>>

RAdd[x \in F64, y \in F64] ==
    IF IsFinite(x) /\ IsFinite(y) THEN Norm[x[1] * y[2] + y[1] * x[2], x[2] * y[2]]
    ELSE IF ~IsFinite(x) /\ ~IsFinite(y) THEN (IF x = y THEN x ELSE NaN)
    ELSE IF ~IsFinite(x) THEN x ELSE y

RSub[x \in F64, y \in F64] == RAdd[x, RNeg[y]]

RMul[x \in F64, y \in F64] ==
    IF IsFinite(x) /\ IsFinite(y) THEN Norm[x[1] * y[1], x[2] * y[2]]
    ELSE <<Sgn(x[1]) * Sgn(y[1]), 0>>

RInv[x \in F64] ==
    IF ~IsFinite(x) THEN (IF x = NaN THEN NaN ELSE Zero)
    ELSE IF x[1] = 0 THEN INFINITY
    ELSE <<Sgn(x[1]) * x[2], Abs(x[1])>>

RDiv[x \in F64, y \in F64] == RMul[x, RInv[y]]

\* x > EPS
GtEps[x \in F64] == IF IsFinite(x) THEN x[1] > x[2] \div EpsDen ELSE x = INFINITY

\* x <= EPS
LeEps[x \in F64] == x # NaN /\ ~GtEps[x]

\* x >= -EPS
GeNegEps[x \in F64] == x # NaN /\ ~GtEps[RNeg[x]]

\* x >= y
RGe[x \in F64, y \in F64] == RSub[x, y] # NaN /\ RSub[x, y][1] >= 0

\* the sum of the entries of the sequence s
RSum[s \in Seq(F64)] == IF s = <<>> THEN Zero ELSE RAdd[Head(s), RSum[Tail(s)]]

\* the sum of f[i] over the indices i of 0..(N - 1) that are in S
RSumOver(f, N, S) == RSum[[i \in 1..N |-> IF (i - 1) \in S THEN f[i - 1] ELSE Zero]]

-----------------------------------------------------------------------------
(* StandardForm *)

Dimensions(s) == Len(s.c)
NumConstraints(s) == Len(s.b)

NoStandardForm == [c |-> <<>>, a |-> <<>>, b |-> <<>>]

\* new with the rows of a compared against the length of b instead of that of c
new_panics_rows_against_b(c, a, b) ==
    \/ Len(a) # Len(b)
    \/ \E i \in 1..Len(a) : Len(a[i]) # Len(b)

\* StandardForm::new panics on a dimension mismatch
new_panics(c, a, b) ==
    \/ Len(a) # Len(b)
    \/ \E i \in 1..Len(a) : Len(a[i]) # Len(c)

new_value(c, a, b) == [c |-> c, a |-> a, b |-> b]

NoSlackForm == [nonbasic |-> {}, basic |-> {}, a |-> <<>>, b |-> <<>>, c |-> <<>>, v |-> Zero]

\* the Vec index i - num_basic of into_slack_from: usize subtraction, then the bounds check
SlackRowInRange(s, i) ==
    /\ i - NumConstraints(s) >= 0
    /\ i - NumConstraints(s) < NumConstraints(s)

\* into_slack_from panics when some index i - num_basic underflows or is out of range
into_slack_from_panics(s) ==
    LET n == Dimensions(s)
        m == NumConstraints(s)
    IN  \E i \in n..(n + m - 1) : ~SlackRowInRange(s, i)

into_slack_from(s) ==
    LET n == Dimensions(s)
        m == NumConstraints(s)
        N == n + m
        nonbasic == 0..(n - 1)
        basic == n..(N - 1)
    IN  [nonbasic |-> nonbasic,
         basic |-> basic,
         a |-> [i \in 0..(N - 1) |-> [j \in 0..(N - 1) |->
                  IF i \in basic /\ j \in nonbasic THEN R(s.a[i - m + 1][j + 1]) ELSE Zero]],
         b |-> [i \in 0..(N - 1) |-> IF i \in basic THEN R(s.b[i - m + 1]) ELSE Zero],
         c |-> [j \in 0..(N - 1) |-> IF j \in nonbasic THEN R(s.c[j + 1]) ELSE Zero],
         v |-> Zero]

into_auxiliary_slack_form(s) ==
    LET n == Dimensions(s)
        m == NumConstraints(s)
        N == n + m
        vaux == N
        basic == n..(N - 1)
    IN  [nonbasic |-> (0..(n - 1)) \cup {vaux},
         basic |-> basic,
         a |-> [i \in 0..N |-> [j \in 0..N |->
                  IF i \in basic /\ j = vaux THEN R(-1)
                  ELSE IF i \in basic /\ j \in 0..(n - 1) THEN R(s.a[i - n + 1][j + 1])
                  ELSE Zero]],
         b |-> [i \in 0..N |-> IF i \in basic THEN R(s.b[i - n + 1]) ELSE Zero],
         c |-> [j \in 0..N |-> IF j = vaux THEN R(-1) ELSE Zero],
         v |-> Zero]

-----------------------------------------------------------------------------
(* SlackForm *)

pivot(self, lv, en) ==
    LET N == Cardinality(self.nonbasic) + Cardinality(self.basic)
        p == self.a[lv][en]
        b_en == RDiv[self.b[lv], p]
        row_en == [j \in 0..(N - 1) |->
                     IF j \in self.nonbasic THEN RDiv[self.a[lv][j], p]
                     ELSE IF j = lv THEN RDiv[One, p]
                     ELSE Zero]
    IN  [nonbasic |-> (self.nonbasic \ {en}) \cup {lv},
         basic |-> (self.basic \ {lv}) \cup {en},
         b |-> [i \in 0..(N - 1) |->
                  IF i \in self.basic THEN RSub[self.b[i], RMul[self.a[i][en], b_en]]
                  ELSE IF i = en THEN b_en
                  ELSE Zero],
         a |-> [i \in 0..(N - 1) |->
                  IF i \in self.basic
                  THEN [j \in 0..(N - 1) |->
                          IF j = lv THEN RMul[RNeg[self.a[i][en]], row_en[lv]]
                          ELSE IF j \in self.nonbasic
                          THEN RSub[self.a[i][j], RMul[self.a[i][en], row_en[j]]]
                          ELSE Zero]
                  ELSE IF i = en THEN row_en
                  ELSE [j \in 0..(N - 1) |-> Zero]],
         c |-> [j \in 0..(N - 1) |->
                  IF j \in self.nonbasic THEN RSub[self.c[j], RMul[self.c[en], row_en[j]]]
                  ELSE IF j = lv THEN RMul[RNeg[self.c[en]], row_en[lv]]
                  ELSE Zero],
         v |-> RAdd[self.v, RMul[self.c[en], b_en]]]

get_basic_solution(self) ==
    [i \in DOMAIN self.a |-> IF i \in self.basic THEN self.b[i] ELSE Zero]

\* the assertion solution.len() == self.c.len() holds of every call: both are a.len()
get_objective(self, sol) ==
    RAdd[self.v, RSumOver([j \in self.nonbasic |-> RMul[self.c[j], sol[j]]],
                        Cardinality(DOMAIN self.c), self.nonbasic)]

-----------------------------------------------------------------------------
(* Iteration order of a HashSet: any sequence holding each element once *)

RECURSIVE Orders(_)
Orders(S) ==
    IF S = {} THEN {<<>>}
    ELSE UNION {{<<x>> \o o : o \in Orders(S \ {x})} : x \in S}

-----------------------------------------------------------------------------
(* initialize_simplex and simplex *)

NoIndex == -1

\* the scan for the most negative b: the pair <<k, bmin>> after rows i..m-1
RECURSIVE min_b_scan(_, _, _, _)
min_b_scan(b, i, kk, bmin) ==
    IF i > Len(b) THEN <<kk, bmin>>
    ELSE IF GtEps[RSub[bmin, R(b[i])]] THEN min_b_scan(b, i + 1, i - 1, R(b[i]))
    ELSE min_b_scan(b, i + 1, kk, bmin)

min_b(s) == min_b_scan(s.b, 1, 0, R(s.b[1]))

\* position over the first num_nonbasic entries of c only
position_structural(self) ==
    LET pos == {j \in DOMAIN self.c : j < Cardinality(self.nonbasic) /\ GtEps[self.c[j]]}
    IN  IF pos = {} THEN NoIndex ELSE CHOOSE j \in pos : \A j2 \in pos : j <= j2

\* c.iter().position(|&ci| ci > EPS)
position(self) ==
    LET pos == {j \in DOMAIN self.c : GtEps[self.c[j]]}
    IN  IF pos = {} THEN NoIndex ELSE CHOOSE j \in pos : \A j2 \in pos : j <= j2

\* the ratio-test loop over the basic rows in iteration order `order`, from element idx on;
\* initialize_simplex tests delta - dii > EPS and simplex dii + eps < delta, the same
\* comparison in exact arithmetic
RECURSIVE ratio_scan(_, _, _, _, _, _)
ratio_scan(self, en, order, idx, lv, delta) ==
    IF idx > Len(order) THEN lv
    ELSE LET ii == order[idx]
         IN  IF ~GtEps[self.a[ii][en]] THEN ratio_scan(self, en, order, idx + 1, lv, delta)
             ELSE LET dii == RDiv[self.b[ii], self.a[ii][en]]
                  IN  IF GtEps[RSub[delta, dii]]
                      THEN ratio_scan(self, en, order, idx + 1, ii, dii)
                      ELSE ratio_scan(self, en, order, idx + 1, lv, delta)

\* the ratio test without the comparison of ratios: the first eligible row leaves
ratio_test_first_eligible(self, en, order) ==
    LET eligible == SelectSeq(order, LAMBDA i : GtEps[self.a[i][en]])
    IN  IF eligible = <<>> THEN 0 ELSE eligible[1]

\* the leaving variable found under one iteration order of self.basic
ratio_test(self, en, order) == ratio_scan(self, en, order, 1, 0, INFINITY)

\* every leaving variable the loop can produce, over the iteration orders of self.basic
Leavings(self, en) == {ratio_test(self, en, o) : o \in Orders(self.basic)}

\* simplex without its unboundedness test
never_unbounded(self, en) == FALSE

\* basic.iter().all(|&i| a[i][entering] <= eps)
unbounded(self, en) == \A i \in self.basic : LeEps[self.a[i][en]]

\* the candidates of nonbasic.iter().find(|&i| a[vaux][*i].abs() > EPS)
find_nonzero(self, vaux) == {j \in self.nonbasic : GtEps[RAbs[self.a[vaux][j]]]}

\* the basic indices i < num_nonbasic of the final auxiliary tableau
structural_basic(s, aux) == {i \in aux.basic : i < Dimensions(s)}

\* the objective constant taken over from the auxiliary tableau
original_v_from_aux(s, aux) == aux.v

\* the objective constant of the original objective at the final auxiliary basis
original_v(s, aux) ==
    RSumOver([i \in structural_basic(s, aux) |-> RMul[R(s.c[i + 1]), aux.b[i]]],
                        Dimensions(s), structural_basic(s, aux))

\* the reduced cost without the term c[j] += standard.c[j]
original_cost_without_cj(s, aux, j) ==
    RNeg[RSumOver([i \in structural_basic(s, aux) |-> RMul[R(s.c[i + 1]), aux.a[i][j]]],
                  Dimensions(s), structural_basic(s, aux))]

\* the reduced cost of nonbasic j for the original objective at the final auxiliary basis
original_cost(s, aux, j) ==
    RSub[IF j < Dimensions(s) THEN R(s.c[j + 1]) ELSE Zero,
         RSumOver([i \in structural_basic(s, aux) |-> RMul[R(s.c[i + 1]), aux.a[i][j]]],
                        Dimensions(s), structural_basic(s, aux))]

\* the tableau of the original objective over the final auxiliary basis
restore_original(s, aux) ==
    LET N == Dimensions(s) + NumConstraints(s)
        vaux == N
        nonbasic == aux.nonbasic \ {vaux}
    IN  [nonbasic |-> nonbasic,
         basic |-> aux.basic,
         a |-> [i \in 0..(N - 1) |-> [j \in 0..(N - 1) |-> aux.a[i][j]]],
         b |-> [i \in 0..(N - 1) |-> aux.b[i]],
         c |-> [j \in 0..(N - 1) |-> IF j \in nonbasic THEN original_cost(s, aux, j) ELSE Zero],
         v |-> original_v(s, aux)]

\* the first num_nonbasic entries of the basic solution
extract_solution(self) ==
    LET basic_solution == get_basic_solution(self)
    IN  [j \in 0..(Cardinality(self.nonbasic) - 1) |-> basic_solution[j]]

-----------------------------------------------------------------------------
(* The inputs explored *)

Zeros(n) == [i \in 1..n |-> 0]

\* all-zero vectors and (possibly ragged) matrices of every shape up to MaxDim
ShapeInputs ==
    {[c |-> Zeros(n), a |-> rows, b |-> Zeros(m)] :
        n \in 0..MaxDim, m \in 0..MaxDim,
        rows \in UNION {[1..r -> {Zeros(l) : l \in 0..MaxDim}] : r \in 0..MaxDim}}

ValueShapes == {<<1, 1>>, <<1, 2>>, <<2, 1>>, <<2, 2>>}

\* well-formed models with objective and right-hand side in -1..1
ValueInputs ==
    UNION {{[c |-> c, a |-> a, b |-> b] :
               c \in [1..sh[1] -> -1..1],
               a \in [1..sh[2] -> [1..sh[1] -> (-1)..MaxCoef]],
               b \in [1..sh[2] -> -1..1]} : sh \in ValueShapes}

\* the models of tests::test_feasible, test_unbounded, test_infeasible and
\* test_initialize_simplex, and a fully degenerate model
Fixtures ==
    {[c |-> <<3, 1, 2>>, a |-> <<<<1, 1, 3>>, <<2, 2, 5>>, <<4, 1, 2>>>>, b |-> <<30, 24, 36>>],
     [c |-> <<10, 1>>, a |-> <<<<1, 0>>, <<20, 1>>>>, b |-> <<1, 100>>],
     [c |-> <<-2, -3, -1>>, a |-> <<<<-1, -4, -2>>, <<-3, -2, 0>>>>, b |-> <<-8, -6>>],
     [c |-> <<1, -1, 1>>, a |-> <<<<2, -1, 2>>, <<2, -3, 1>>, <<-1, 1, -2>>>>, b |-> <<4, -5, -1>>],
     [c |-> <<1, 3, -1>>, a |-> <<<<2, 2, -1>>, <<3, -2, 1>>, <<1, -3, 1>>>>, b |-> <<10, 10, 10>>],
     [c |-> <<3, 1>>, a |-> <<<<1, -1>>, <<-1, -1>>, <<2, 1>>>>, b |-> <<-1, -3, 2>>],
     [c |-> <<2, -1>>, a |-> <<<<2, -1>>, <<1, -5>>>>, b |-> <<2, -4>>],
     [c |-> <<0, -3, 1, 3>>,
      a |-> <<<<3, 2, -3, 3>>, <<1, 0, 2, 2>>, <<3, 3, 2, 3>>, <<-3, 2, 1, 0>>>>,
      b |-> <<0, 0, 0, 0>>]}

Inputs == ShapeInputs \cup ValueInputs \cup Fixtures

-----------------------------------------------------------------------------
(* The program *)

Init ==
    /\ input \in Inputs
    /\ std = NoStandardForm
    /\ slack_aux = NoSlackForm
    /\ slack = NoSlackForm
    /\ k = 0
    /\ leaving = NoIndex
    /\ entering = NoIndex
    /\ pc = "new"
    /\ result = "none"
    /\ solution = <<>>
    /\ optimal = Zero

\* StandardForm::new(c, a, b)
New ==
    /\ pc = "new"
    /\ IF new_panics(input.c, input.a, input.b)
       THEN /\ pc' = "done"
            /\ result' = "panic"
            /\ std' = std
       ELSE /\ pc' = "initialize_simplex"
            /\ result' = result
            /\ std' = new_value(input.c, input.a, input.b)
    /\ UNCHANGED <<input, slack_aux, slack, k, leaving, entering, solution, optimal>>

\* initialize_simplex up to the choice between the plain and the auxiliary slack form
Initialize ==
    /\ pc = "initialize_simplex"
    /\ IF NumConstraints(std) = 0
       THEN \* standard.b[0] is out of range
            /\ pc' = "done"
            /\ result' = "panic"
            /\ UNCHANGED <<slack_aux, slack, k>>
       ELSE IF GeNegEps[min_b(std)[2]]
       THEN IF into_slack_from_panics(std)
            THEN /\ pc' = "done"
                 /\ result' = "panic"
                 /\ UNCHANGED <<slack_aux, slack, k>>
            ELSE /\ pc' = "phase2"
                 /\ slack' = into_slack_from(std)
                 /\ k' = min_b(std)[1]
                 /\ UNCHANGED <<slack_aux, result>>
       ELSE /\ pc' = "aux"
            /\ slack_aux' = into_auxiliary_slack_form(std)
            /\ k' = min_b(std)[1]
            /\ UNCHANGED <<slack, result>>
    /\ UNCHANGED <<input, std, leaving, entering, solution, optimal>>

\* slack_aux = slack_aux.pivot(num_nonbasic + k, vaux)
AuxFirstPivot ==
    /\ pc = "aux"
    /\ leaving' = Dimensions(std) + k
    /\ entering' = Dimensions(std) + NumConstraints(std)
    /\ slack_aux' = pivot(slack_aux, leaving', entering')
    /\ pc' = "phase1"
    /\ UNCHANGED <<input, std, slack, k, result, solution, optimal>>

\* one iteration of the while loop of initialize_simplex
Phase1Pivot ==
    /\ pc = "phase1"
    /\ position(slack_aux) # NoIndex
    /\ entering' = position(slack_aux)
    /\ \E lv \in Leavings(slack_aux, entering') :
          /\ leaving' = lv
          /\ slack_aux' = pivot(slack_aux, lv, entering')
    /\ UNCHANGED <<input, std, slack, k, pc, result, solution, optimal>>

\* the exit of the while loop of initialize_simplex and the feasibility test
Phase1Exit ==
    /\ pc = "phase1"
    /\ position(slack_aux) = NoIndex
    /\ LET vaux == Dimensions(std) + NumConstraints(std)
       IN  IF LeEps[RAbs[get_basic_solution(slack_aux)[vaux]]]
           THEN /\ pc' = IF vaux \in slack_aux.basic THEN "drive_out" ELSE "restore"
                /\ result' = result
           ELSE /\ pc' = "done"
                /\ result' = "Infeasible"
    /\ UNCHANGED <<input, std, slack_aux, slack, k, leaving, entering, solution, optimal>>

\* the auxiliary variable is basic at value 0: pivot it out
DriveOut ==
    /\ pc = "drive_out"
    /\ LET vaux == Dimensions(std) + NumConstraints(std)
           found == find_nonzero(slack_aux, vaux)
       IN  \E en \in (IF found = {} THEN {NoIndex} ELSE found) :
              IF en = NoIndex
              THEN \* unwrap() of None
                   /\ pc' = "done"
                   /\ result' = "panic"
                   /\ UNCHANGED <<slack_aux, leaving, entering>>
              ELSE /\ pc' = "restore"
                   /\ result' = result
                   /\ leaving' = vaux
                   /\ entering' = en
                   /\ slack_aux' = pivot(slack_aux, vaux, en)
    /\ UNCHANGED <<input, std, slack, k, solution, optimal>>

\* initialize_simplex returns the tableau of the original objective
Restore ==
    /\ pc = "restore"
    /\ slack' = restore_original(std, slack_aux)
    /\ pc' = "phase2"
    /\ UNCHANGED <<input, std, slack_aux, k, leaving, entering, result, solution, optimal>>

\* the while loop of simplex finds the entering column unbounded
Phase2Unbounded ==
    /\ pc = "phase2"
    /\ position(slack) # NoIndex
    /\ unbounded(slack, position(slack))
    /\ pc' = "done"
    /\ result' = "Unbounded"
    /\ UNCHANGED <<input, std, slack_aux, slack, k, leaving, entering, solution, optimal>>

\* one pivoting iteration of the while loop of simplex
Phase2Pivot ==
    /\ pc = "phase2"
    /\ position(slack) # NoIndex
    /\ ~unbounded(slack, position(slack))
    /\ entering' = position(slack)
    /\ \E lv \in Leavings(slack, entering') :
          /\ leaving' = lv
          /\ slack' = pivot(slack, lv, entering')
    /\ UNCHANGED <<input, std, slack_aux, k, pc, result, solution, optimal>>

\* the loop of simplex ends: report the basic solution and its objective
Phase2Finish ==
    /\ pc = "phase2"
    /\ position(slack) = NoIndex
    /\ solution' = extract_solution(slack)
    /\ optimal' = get_objective(slack, get_basic_solution(slack))
    /\ pc' = "done"
    /\ result' = "Feasible"
    /\ UNCHANGED <<input, std, slack_aux, slack, k, leaving, entering>>

Next ==
    \/ New
    \/ Initialize
    \/ AuxFirstPivot
    \/ Phase1Pivot
    \/ Phase1Exit
    \/ DriveOut
    \/ Restore
    \/ Phase2Unbounded
    \/ Phase2Pivot
    \/ Phase2Finish

Spec == Init /\ [][Next]_vars

\* the program keeps running until it returns or panics
FairSpec == Init /\ [][Next]_vars /\ WF_vars(Next)

\* no non-finite value is ever computed
Finite ==
    \A s \in {slack_aux, slack} :
        /\ IsFinite(s.v)
        /\ \A i \in DOMAIN s.b : IsFinite(s.b[i]) /\ IsFinite(s.c[i])
        /\ \A i \in DOMAIN s.a : \A j \in DOMAIN s.a[i] : IsFinite(s.a[i][j])

-----------------------------------------------------------------------------
(* The model as the caller gave it, for the statements below *)

n_orig == Len(input.c)
m_orig == Len(input.b)
c_orig(j) == R(input.c[j + 1])
A_orig(i, j) == R(input.a[i + 1][j + 1])
b_orig(i) == R(input.b[i + 1])

Accepted == Len(input.a) = Len(input.b) /\ \A i \in 1..Len(input.a) : Len(input.a[i]) = Len(input.c)

\* x <= y + EPS
LeWithinEps(x, y) == LeEps[RSub[x, y]]

\* the value of variable j in the basic solution of tableau s
BasicValue(s, j) == IF j \in s.basic THEN s.b[j] ELSE Zero

\* a step that replaces the tableau by a pivot of it
Phase1PivotStep == pc = "phase1" /\ pc' = "phase1"
Phase2PivotStep == pc = "phase2" /\ pc' = "phase2"
AuxPivotStep == pc = "aux" \/ Phase1PivotStep \/ (pc = "drive_out" /\ pc' = "restore")

-----------------------------------------------------------------------------
(* C1 *)

-----------------------------------------------------------------------------
(* C2 *)

\* C2: when simplex returns Feasible, every nonbasic reduced cost of the final tableau
\* is <= eps.
OptimalityCertificate ==
    result = "Feasible" => \A j \in slack.nonbasic : LeEps[slack.c[j]]

\* a Feasible result whose final tableau has a slack variable nonbasic, after a pivot
OptimalityCertificateWitness ==
    /\ result = "Feasible"
    /\ leaving # NoIndex
    /\ \E j \in slack.nonbasic : j >= n_orig /\ slack.c[j] # Zero

-----------------------------------------------------------------------------
(* C3 *)

\* C3: the pivot loops of Phase I and Phase II terminate on every input, whatever the
\* order in which the basic rows are traversed: every run reaches its result.
Terminates == <>(pc = "done")

-----------------------------------------------------------------------------
(* C4 *)

AllBNonnegative == \A i \in 0..(m_orig - 1) : GeNegEps[b_orig(i)]

IsPlainSlackForm(s) ==
    /\ s.basic = n_orig..(n_orig + m_orig - 1)
    /\ s.nonbasic = 0..(n_orig - 1)
    /\ \A i \in 0..(m_orig - 1) :
          /\ s.b[n_orig + i] = b_orig(i)
          /\ \A j \in 0..(n_orig - 1) : s.a[n_orig + i][j] = A_orig(i, j)
    /\ \A j \in 0..(n_orig - 1) : s.c[j] = c_orig(j)
    /\ s.v = Zero

\* C4: for every accepted model with every b_i >= -eps, Phase I performs no pivot and
\* returns the plain slack form (all slacks basic, a[n+i][j] = A[i][j], b[n+i] = b_i,
\* c[j] = c_j, v = 0).
PlainSlackFormReturned ==
    [][(pc = "initialize_simplex" /\ Accepted /\ AllBNonnegative) =>
          (pc' = "phase2" /\ slack_aux' = NoSlackForm /\ IsPlainSlackForm(slack'))]_vars

-----------------------------------------------------------------------------
(* C5 *)

\* C5: for every accepted model simplex is total: it ends with Feasible (and a solution
\* of length n), Infeasible or Unbounded, and never panics.
SimplexTotal ==
    (pc = "done" /\ Accepted) =>
        /\ result \in {"Feasible", "Infeasible", "Unbounded"}
        /\ result = "Feasible" => DOMAIN solution = 0..(n_orig - 1)

-----------------------------------------------------------------------------
(* C6 *)

\* C6: StandardForm::new fails exactly when len(A) # len(b) or some row of A has a
\* length other than len(c), and otherwise stores c, A and b unchanged.
DimensionValidation ==
    [][pc = "new" =>
          IF Len(input.a) # Len(input.b) \/ \E i \in 1..Len(input.a) : Len(input.a[i]) # Len(input.c)
          THEN result' = "panic" /\ pc' = "done" /\ std' = NoStandardForm
          ELSE /\ result' = "none" /\ pc' = "initialize_simplex"
               /\ std'.c = input.c /\ std'.a = input.a /\ std'.b = input.b]_vars

\* the constructor rejected a matrix whose row count is right and one row is short
DimensionValidationWitness ==
    /\ pc = "done"
    /\ result = "panic"
    /\ std = NoStandardForm
    /\ Len(input.a) = Len(input.b)
    /\ \E i \in 1..Len(input.a) : Len(input.a[i]) # Len(input.c)

-----------------------------------------------------------------------------
(* C7 *)

\* the rows eligible to leave and the ratio of each
Eligible(s, en) == {i \in s.basic : GtEps[s.a[i][en]]}
Ratio(s, en, i) == RDiv[s.b[i], s.a[i][en]]

\* the eligible rows whose ratio is within eps of the minimum
MinRatioRows(s, en) ==
    {i \in Eligible(s, en) :
        \A i2 \in Eligible(s, en) : LeWithinEps(Ratio(s, en, i), Ratio(s, en, i2))}

SmallestIndex(S) == CHOOSE i \in S : \A i2 \in S : i <= i2

\* C7: in every loop iteration of Phase I and Phase II the leaving variable is the
\* eligible row of minimum ratio, and among rows tied within eps the one of smallest
\* index, whatever the iteration order of the basic set.
BlandLeaving ==
    [][/\ (Phase1PivotStep /\ Eligible(slack_aux, entering') # {}) =>
              leaving' = SmallestIndex(MinRatioRows(slack_aux, entering'))
       /\ (Phase2PivotStep /\ Eligible(slack, entering') # {}) =>
              leaving' = SmallestIndex(MinRatioRows(slack, entering'))]_vars

-----------------------------------------------------------------------------
(* C8 *)

\* C8: the tableau Phase I returns after the auxiliary path is over the indices
\* 0..n+m-1: the auxiliary index is neither basic nor nonbasic, |basic| = m,
\* |nonbasic| = n, v and c are the original objective rewritten over the basis, and
\* a and b of the basic rows are those of the final auxiliary tableau.
RestoredTableau ==
    [][pc = "restore" =>
          LET vaux == n_orig + m_orig
              structural == {i \in slack'.basic : i < n_orig}
          IN  /\ vaux \notin slack'.basic \cup slack'.nonbasic
              /\ slack'.basic \cup slack'.nonbasic = 0..(vaux - 1)
              /\ Cardinality(slack'.basic) = m_orig
              /\ Cardinality(slack'.nonbasic) = n_orig
              /\ slack'.v = RSumOver([i \in structural |-> RMul[c_orig(i), slack'.b[i]]],
                        n_orig, structural)
              /\ \A j \in slack'.nonbasic :
                    slack'.c[j] =
                        RSub[IF j < n_orig THEN c_orig(j) ELSE Zero,
                             RSumOver([i \in structural |-> RMul[c_orig(i), slack'.a[i][j]]],
                        n_orig, structural)]
              /\ \A i \in slack'.basic :
                    /\ slack'.b[i] = slack_aux.b[i]
                    /\ \A j \in slack'.nonbasic : slack'.a[i][j] = slack_aux.a[i][j]]_vars

\* Phase I returned after pivoting a basic auxiliary variable out, with a structural
\* variable of nonzero cost in the basis
RestoredTableauWitness ==
    /\ pc = "phase2"
    /\ slack_aux # NoSlackForm
    /\ leaving = n_orig + m_orig
    /\ slack.basic = slack_aux.basic
    /\ \E i \in slack.basic : i < n_orig /\ c_orig(i) # Zero

-----------------------------------------------------------------------------
(* C9 *)

IsPartition(s, N, m) ==
    /\ s.basic \cap s.nonbasic = {}
    /\ s.basic \cup s.nonbasic = 0..(N - 1)
    /\ Cardinality(s.basic) = m

\* C9: in every tableau of Phase I and Phase II basic and nonbasic are disjoint, cover
\* the index set of the tableau, and |basic| = m; every pivot is invoked with leaving
\* in basic and entering in nonbasic.
PartitionKept ==
    [][/\ slack_aux' # NoSlackForm => IsPartition(slack_aux', n_orig + m_orig + 1, m_orig)
       /\ slack' # NoSlackForm => IsPartition(slack', n_orig + m_orig, m_orig)
       /\ AuxPivotStep =>
              (leaving' \in slack_aux.basic /\ entering' \in slack_aux.nonbasic)
       /\ Phase2PivotStep =>
              (leaving' \in slack.basic /\ entering' \in slack.nonbasic)]_vars

\* a Phase-II pivot on a tableau that came out of the auxiliary problem
PartitionKeptWitness ==
    /\ pc = "phase2"
    /\ slack_aux # NoSlackForm
    /\ slack.basic # slack_aux.basic
    /\ leaving \in slack.nonbasic
    /\ entering \in slack.basic

-----------------------------------------------------------------------------
(* C10 *)

\* the original objective at the basic solution of tableau s
ObjectiveAt(s) ==
    RSumOver([j \in 0..(n_orig - 1) |-> RMul[c_orig(j), BasicValue(s, j)]],
                        n_orig, 0..(n_orig - 1))

=============================================================================
